---- MODULE Spec2Model ----
(***************************************************************************)
(* DataCleaner (src/src/data_cleaner.py) and StatisticsUtils               *)
(* (src/src/statistics_utils.py): every public method is a pure function   *)
(* of its arguments.  The state is the caller's view of one call: the      *)
(* table or sequence the caller holds, the call that was made with it,     *)
(* and what the call gave back (a value or an exception).                  *)
(*                                                                         *)
(* A table is [columns, kind, rows]: the ordered column names, the dtype   *)
(* kind of each column ("text", "numeric", "object") and the rows in index *)
(* order, each row a function from column name to cell.  A cell is a       *)
(* record [na, s, n]: the missing marker, or a text (a sequence of         *)
(* one-character strings), or a number.                                    *)
(***************************************************************************)
EXTENDS Integers, Sequences, FiniteSets, TLC

VARIABLES
    df,     \* the table the caller holds (the df argument of DataCleaner)
    arr,    \* the sequence the caller holds (the arr argument of StatisticsUtils)
    call,   \* the last call: method, the table as it was passed, the arguments
    out     \* its outcome: exception, the names it carries, the returned value

vars == <<df, arr, call, out>>

----------------------------------------------------------------------------
(* Bounds of the model *)

MaxRows == 2        \* rows of a table of the text family
MaxNumRows == 4     \* rows of a table of the numeric family
MaxCols == 2        \* length of a column_names argument
MaxLen == 4         \* length of a one-dimensional sequence

----------------------------------------------------------------------------
(* Cells and tables *)

NA == [na |-> TRUE, s |-> <<>>, n |-> 0]
Txt(s) == [na |-> FALSE, s |-> s, n |-> 0]
Num(n) == [na |-> FALSE, s |-> <<>>, n |-> n]

Range(f) == {f[i] : i \in DOMAIN f}

\* pandas.isna on one cell (what DataFrame.dropna tests)
isna(cell) == cell.na

\* str.isspace on one character
Whitespace == {" ", "\t"}

\* `c in df.columns`
has_column(d, c) == c \in Range(d.columns)

\* pandas.api.types.is_string_dtype(df[c])
is_string_dtype(d, c) == d.kind[c] = "text"

\* pandas.api.types.is_numeric_dtype(df[c])
is_numeric_dtype(d, c) == d.kind[c] = "numeric"

\* Only the first absent name is reported
FirstMissing(d, cols) ==
    LET m == SelectSeq(cols, LAMBDA c : ~has_column(d, c))
    IN  IF m = <<>> THEN m ELSE <<Head(m)>>

\* [c for c in cols if c not in df.columns]
missing_columns(d, cols) == SelectSeq(cols, LAMBDA c : ~has_column(d, c))

\* raise exc(msg): nothing is returned; names are the names the message lists,
\* input is the caller's object as the call leaves it
Raise(exc, msg, names, d) ==
    [exc |-> exc, msg |-> msg, names |-> names, ret |-> <<>>, input |-> d]

\* return value
Return(value, d) ==
    [exc |-> "none", msg |-> "", names |-> <<>>, ret |-> <<value>>, input |-> d]

----------------------------------------------------------------------------
(* DataCleaner.drop_invalid_rows *)

\* A row is dropped only when it is missing in every column of subset
DropnaAll(d, subset) ==
    [d EXCEPT !.rows =
        SelectSeq(d.rows, LAMBDA r : subset = <<>> \/
                                     \E i \in 1..Len(subset) : ~isna(r[subset[i]]))]

\* DataFrame.dropna(subset=...): a new table of the rows with no missing cell
\* in any column of subset, in index order
dropna(d, subset) ==
    [d EXCEPT !.rows =
        SelectSeq(d.rows, LAMBDA r : \A i \in 1..Len(subset) : ~isna(r[subset[i]]))]

drop_invalid_rows(d, cols) ==
    LET missing == missing_columns(d, cols)
    IN  IF missing # <<>>
        THEN Raise("KeyError", "Columns not found in DataFrame", missing, d)
        ELSE Return(dropna(d, cols), d)

----------------------------------------------------------------------------
(* DataCleaner.trim_strings *)

RECURSIVE lstrip(_)
lstrip(s) == IF s # <<>> /\ Head(s) \in Whitespace THEN lstrip(Tail(s)) ELSE s

RECURSIVE rstrip(_)
rstrip(s) ==
    IF s # <<>> /\ s[Len(s)] \in Whitespace
    THEN rstrip(SubSeq(s, 1, Len(s) - 1))
    ELSE s

\* Only one whitespace character removed on each side
StripOnce(s) ==
    LET l == IF s # <<>> /\ Head(s) \in Whitespace THEN Tail(s) ELSE s
    IN  IF l # <<>> /\ l[Len(l)] \in Whitespace THEN SubSeq(l, 1, Len(l) - 1) ELSE l

\* str.strip()
strip(s) == rstrip(lstrip(s))

\* Series.str.strip(): missing cells stay missing
str_strip(cell) == IF isna(cell) THEN cell ELSE Txt(strip(cell.s))

\* The table bound to `result` shares its data with df
NoCopy(d) == [result |-> d, df |-> d, alias |-> TRUE]

\* result = df.copy(): the local heap of trim_strings, result a table of its own
df_copy(d) == [result |-> d, df |-> d, alias |-> FALSE]

\* result[c] = result[c].str.strip()
setitem_strip(h, c) ==
    LET t == [h.result EXCEPT !.rows =
                 [i \in 1..Len(h.result.rows) |->
                     [h.result.rows[i] EXCEPT ![c] = str_strip(@)]]]
    IN  [result |-> t, df |-> IF h.alias THEN t ELSE h.df, alias |-> h.alias]

\* for c in cols: result[c] = result[c].str.strip()
RECURSIVE strip_loop(_, _)
strip_loop(h, cols) ==
    IF cols = <<>> THEN h ELSE strip_loop(setitem_strip(h, Head(cols)), Tail(cols))

\* The dtype check comes before the check for absent names
TrimTypeCheckFirst(d, cols) ==
    LET missing == missing_columns(d, cols)
        non_string == SelectSeq(cols, LAMBDA c : has_column(d, c)
                                                 /\ ~is_string_dtype(d, c))
    IN  IF non_string # <<>>
        THEN Raise("TypeError", "Columns are not string dtype", non_string, d)
        ELSE IF missing # <<>>
        THEN Raise("KeyError", "Columns not found in DataFrame", missing, d)
        ELSE LET h == strip_loop(df_copy(d), cols)
             IN  Return(h.result, h.df)

trim_strings(d, cols) ==
    LET missing == missing_columns(d, cols)
        non_string == SelectSeq(cols, LAMBDA c : ~is_string_dtype(d, c))
    IN  IF missing # <<>>
        THEN Raise("KeyError", "Columns not found in DataFrame", missing, d)
        ELSE IF non_string # <<>>
        THEN Raise("TypeError", "Columns are not string dtype", non_string, d)
        ELSE LET h == strip_loop(df_copy(d), cols)
             IN  Return(h.result, h.df)

----------------------------------------------------------------------------
(* Exact rational numbers [n, d] in lowest terms, d > 0; nan is the float
   not-a-number *)

RECURSIVE Gcd(_, _)
Gcd(a, b) == IF b = 0 THEN a ELSE Gcd(b, a % b)

R(i) == [nan |-> FALSE, n |-> i, d |-> 1]
\* a / b for b > 0
Frac(a, b) ==
    LET g == Gcd(IF a < 0 THEN -a ELSE a, b)
    IN  [nan |-> FALSE, n |-> a \div g, d |-> b \div g]
NaN == [nan |-> TRUE, n |-> 0, d |-> 1]

RAdd(a, b) ==
    IF a.nan \/ b.nan THEN NaN ELSE Frac(a.n * b.d + b.n * a.d, a.d * b.d)
RSub(a, b) ==
    IF a.nan \/ b.nan THEN NaN ELSE Frac(a.n * b.d - b.n * a.d, a.d * b.d)
RMul(a, b) ==
    IF a.nan \/ b.nan THEN NaN ELSE Frac(a.n * b.n, a.d * b.d)
\* a <= b and a = b; every comparison with nan is false
RLe(a, b) == ~a.nan /\ ~b.nan /\ a.n * b.d <= b.n * a.d
REq(a, b) == ~a.nan /\ ~b.nan /\ a.n * b.d = b.n * a.d

----------------------------------------------------------------------------
(* DataCleaner.remove_outliers_iqr *)

\* the values of df[col] that are not missing, in ascending order
sorted_values(d, col) ==
    LET present == SelectSeq(d.rows, LAMBDA r : ~isna(r[col]))
    IN  SortSeq([i \in 1..Len(present) |-> present[i][col].n],
                LAMBDA x, y : x < y)

\* The lower neighbouring order statistic, without interpolation
QuantileLower(d, col, qn, qd) ==
    LET v == sorted_values(d, col)
    IN  IF Len(v) = 0 THEN NaN ELSE R(v[((Len(v) - 1) * qn) \div qd + 1])

\* Series.quantile(qn/qd), interpolation="linear": missing values are skipped,
\* the quantile of no values is nan; position (n-1)*q between the two
\* neighbouring order statistics
quantile(d, col, qn, qd) ==
    LET v == sorted_values(d, col)
        pos == (Len(v) - 1) * qn
        i == pos \div qd
        r == pos % qd
    IN  IF Len(v) = 0 THEN NaN
        ELSE IF r = 0 THEN R(v[i + 1])
        ELSE Frac(v[i + 1] * qd + (v[i + 2] - v[i + 1]) * r, qd)

\* Both comparisons strict
MaskStrict(cell, lower, upper) ==
    /\ ~isna(cell)
    /\ RLe(lower, R(cell.n)) /\ ~REq(lower, R(cell.n))
    /\ RLe(R(cell.n), upper) /\ ~REq(R(cell.n), upper)

\* (df[col] >= lower) & (df[col] <= upper) on one cell
mask(cell, lower, upper) ==
    ~isna(cell) /\ RLe(lower, R(cell.n)) /\ RLe(R(cell.n), upper)

remove_outliers_iqr(d, col, factor) ==
    IF ~has_column(d, col)
    THEN Raise("KeyError", "Column not found in DataFrame", <<col>>, d)
    ELSE IF ~is_numeric_dtype(d, col)
    THEN Raise("TypeError", "Column must be numeric to compute IQR", <<col>>, d)
    ELSE LET q1 == quantile(d, col, 1, 4)
             q3 == quantile(d, col, 3, 4)
             iqr == RSub(q3, q1)
             lower == RSub(q1, RMul(factor, iqr))
             upper == RAdd(q3, RMul(factor, iqr))
         IN  Return([d EXCEPT !.rows =
                        SelectSeq(d.rows, LAMBDA r : mask(r[col], lower, upper))],
                    d)

----------------------------------------------------------------------------
(* Arrays.  np.asarray(arr, dtype=float) gives an ndarray [shape, data]: the  *)
(* lengths along each axis and the elements in row-major order.  Elements     *)
(* are rationals.  moving_average and min_max_scale are computed in exact     *)
(* arithmetic: the value their float64 result approximates.  zscore compares  *)
(* a computed float with zero (std == 0), so there every operation rounds to  *)
(* the nearest float, ties to even, as IEEE 754 arithmetic does; the          *)
(* significand has Prec bits where float64 has 53, the exponent is unbounded. *)

ndim(a) == Len(a.shape)

\* len(arr) of an array with at least one axis
len(a) == a.shape[1]

RDiv(a, b) ==
    IF a.nan \/ b.nan \/ b.n = 0 THEN NaN
    ELSE IF b.n > 0 THEN Frac(a.n * b.d, a.d * b.n)
    ELSE Frac(-(a.n * b.d), -(a.d * b.n))

RECURSIVE RSum(_)
RSum(s) == IF s = <<>> THEN R(0) ELSE RAdd(RSum(SubSeq(s, 1, Len(s) - 1)), s[Len(s)])

----------------------------------------------------------------------------
(* StatisticsUtils.moving_average *)

\* np.ones(window, dtype=float) / window
ones_over(window) == [j \in 1..window |-> Frac(1, window)]

\* The window starts one element late and runs off the end of the data
ConvolveShifted(a, v) ==
    [k \in 1..(Len(a) - Len(v) + 1) |->
        RSum([j \in 1..Len(v) |->
                 IF k + Len(v) - j + 1 <= Len(a)
                 THEN RMul(a[k + Len(v) - j + 1], v[j]) ELSE R(0)])]

\* np.convolve(a, v, mode="valid") for len(v) <= len(a): the products of the
\* kernel, reversed, with each stretch of len(v) elements it fully overlaps
convolve_valid(a, v) ==
    [k \in 1..(Len(a) - Len(v) + 1) |->
        RSum([j \in 1..Len(v) |-> RMul(a[k + Len(v) - j], v[j])])]

\* The array is too short only when it is empty
LengthCheckEmptyOnly(a, window) == len(a) = 0

\* len(arr) < window
too_short(a, window) == len(a) < window

moving_average(a, window) ==
    IF window <= 0
    THEN Raise("ValueError", "window must be a positive integer", <<>>, a)
    ELSE IF ndim(a) # 1
    THEN Raise("ValueError", "moving_average only supports 1D sequences", <<>>, a)
    ELSE IF too_short(a, window)
    THEN Raise("ValueError", "window must not be larger than the array size", <<>>, a)
    ELSE Return([shape |-> <<len(a) - window + 1>>,
                 data |-> convolve_valid(a.data, ones_over(window))], a)

----------------------------------------------------------------------------
(* StatisticsUtils.min_max_scale *)

RECURSIVE amin(_)
amin(s) ==
    IF Len(s) = 1 THEN s[1]
    ELSE LET m == amin(Tail(s)) IN IF RLe(s[1], m) THEN s[1] ELSE m

RECURSIVE amax(_)
amax(s) ==
    IF Len(s) = 1 THEN s[1]
    ELSE LET m == amax(Tail(s)) IN IF RLe(m, s[1]) THEN s[1] ELSE m

\* The values are divided by the maximum instead of the range
ScaleByMax(x, lo, hi) == RDiv(RSub(x, lo), hi)

\* (x - min_val) / (max_val - min_val)
scale(x, lo, hi) == RDiv(RSub(x, lo), RSub(hi, lo))

min_max_scale(a) ==
    IF a.data = <<>>
    THEN Raise("ValueError", "zero-size array to reduction operation minimum", <<>>, a)
    ELSE LET min_val == amin(a.data)
             max_val == amax(a.data)
         IN  IF REq(min_val, max_val)
             THEN Raise("ValueError", "All values are equal", <<>>, a)
             ELSE Return([a EXCEPT !.data =
                            [i \in 1..Len(a.data) |->
                                scale(a.data[i], min_val, max_val)]], a)

----------------------------------------------------------------------------
(* Floating-point arithmetic with a significand of Prec bits *)

Prec == 4

RECURSIVE Pow2(_)
Pow2(k) == IF k = 0 THEN 1 ELSE 2 * Pow2(k - 1)

Abs(i) == IF i < 0 THEN -i ELSE i

\* a/d = q * 2^e with 2^(Prec-1) <= q < 2^Prec: scaled is [a, d, e] with a/d = q
RECURSIVE Scaled(_, _, _)
Scaled(a, d, e) ==
    IF a >= Pow2(Prec) * d THEN Scaled(a, 2 * d, e + 1)
    ELSE IF a < Pow2(Prec - 1) * d THEN Scaled(2 * a, d, e - 1)
    ELSE [a |-> a, d |-> d, e |-> e]

\* m * 2^e as a rational in lowest terms
RECURSIVE Dyadic(_, _)
Dyadic(m, e) ==
    IF e >= 0 THEN R(m * Pow2(e))
    ELSE IF m % 2 = 0 THEN Dyadic(m \div 2, e + 1)
    ELSE Frac(m, Pow2(-e))

\* the float nearest to the rational x, ties to the even significand
fl(x) ==
    IF x.nan THEN NaN
    ELSE IF x.n = 0 THEN R(0)
    ELSE LET t == Scaled(Abs(x.n), x.d, 0)
             m == t.a \div t.d
             rest == t.a % t.d
             up == 2 * rest > t.d \/ (2 * rest = t.d /\ m % 2 = 1)
             r == Dyadic(IF up THEN m + 1 ELSE m, t.e)
         IN  IF x.n < 0 THEN Frac(-r.n, r.d) ELSE r

\* a/d = q * 4^e with 4^(Prec-1) <= q < 4^Prec
RECURSIVE Scaled4(_, _, _)
Scaled4(a, d, e) ==
    IF a >= Pow2(2 * Prec) * d THEN Scaled4(a, 4 * d, e + 1)
    ELSE IF a < Pow2(2 * Prec - 2) * d THEN Scaled4(4 * a, d, e - 1)
    ELSE [a |-> a, d |-> d, e |-> e]

\* np.sqrt: the float nearest to the square root of x >= 0
fsqrt(x) ==
    IF x.nan \/ x.n < 0 THEN NaN
    ELSE IF x.n = 0 THEN R(0)
    ELSE LET t == Scaled4(x.n, x.d, 0)
             m == CHOOSE k \in Pow2(Prec - 1)..(Pow2(Prec) - 1) :
                      k * k * t.d <= t.a /\ t.a < (k + 1) * (k + 1) * t.d
             half == (2 * m + 1) * (2 * m + 1) * t.d
             up == 4 * t.a > half \/ (4 * t.a = half /\ m % 2 = 1)
         IN  Dyadic(IF up THEN m + 1 ELSE m, t.e)

fadd(a, b) == fl(RAdd(a, b))
fsub(a, b) == fl(RSub(a, b))
fmul(a, b) == fl(RMul(a, b))
fdiv(a, b) == fl(RDiv(a, b))

\* np.add.reduce over a short array: the elements are added in order
RECURSIVE fsum(_)
fsum(s) == IF s = <<>> THEN R(0) ELSE fadd(fsum(SubSeq(s, 1, Len(s) - 1)), s[Len(s)])

----------------------------------------------------------------------------
(* StatisticsUtils.zscore *)

\* ndarray.mean(): the sum divided by the number of elements (nan when empty)
mean(s) == fdiv(fsum(s), R(Len(s)))

\* ndarray.std(), ddof = 0: the square root of the mean of the squared
\* deviations from the mean
std(s) ==
    LET m == mean(s)
        sq == [i \in 1..Len(s) |-> fmul(fsub(s[i], m), fsub(s[i], m))]
    IN  fsqrt(fdiv(fsum(sq), R(Len(s))))

zscore(a) ==
    LET sd == std(a.data)
    IN  IF REq(sd, R(0))
        THEN Raise("ValueError", "Standard deviation is zero", <<>>, a)
        ELSE LET mu == mean(a.data)
             IN  Return([a EXCEPT !.data =
                            [i \in 1..Len(a.data) |->
                                fdiv(fsub(a.data[i], mu), sd)]], a)

----------------------------------------------------------------------------
(* The tables and arguments the calls are made with *)

\* all sequences over S of length at most n
SeqsUpTo(S, n) == UNION {[1..k -> S] : k \in 0..n}

ColumnNames == {"name", "age", "city", "salary"}

Factors == {Frac(3, 2), Frac(1, 2), R(0), R(-1)}

\* name: leading, inner and trailing whitespace; clean; whitespace only; missing
NameCells ==
    {Txt(<<" ", "a", " ", "b", "\t">>), Txt(<<"a">>), Txt(<<" ", "\t", " ">>), NA}
AgeCells == {Num(1), NA}
CityCells == {Txt(<<"x", " ">>), Txt(<<"y">>)}

\* tables shaped like make_sample_df: name (text), age (numeric), city (text).
\* A column of strings is of string dtype.  Whether a column of strings that
\* also holds a missing value is, depends on the pandas release
\* (is_string_dtype infers from the elements of an object column since 2.0,
\* and None is not a string): such a column is drawn as "text" and as "object".
TextTables ==
    {[columns |-> <<"name", "age", "city">>,
      kind |-> [name |-> k, age |-> "numeric", city |-> "text"],
      rows |-> rows] :
        <<rows, k>> \in
            {rk \in SeqsUpTo([name : NameCells, age : AgeCells, city : CityCells],
                             MaxRows) \X {"text", "object"} :
                rk[2] = "object" => \E i \in 1..Len(rk[1]) : rk[1][i].name.na}}

NumCells == {Num(0), Num(1), Num(2), Num(9), NA}

\* the text that marks row i of a numeric table, so that rows with equal
\* ages remain distinguishable
Tag(i) == Txt([j \in 1..i |-> "x"])

\* tables with a numeric column age and a text column city
NumTables ==
    {[columns |-> <<"age", "city">>,
      kind |-> [age |-> "numeric", city |-> "text"],
      rows |-> [i \in 1..Len(ages) |-> [age |-> ages[i], city |-> Tag(i)]]] :
        ages \in SeqsUpTo(NumCells, MaxNumRows)}

EmptyArray == [shape |-> <<0>>, data |-> <<>>]

\* no call made yet.  df and arr hold the argument as it was passed, again tells
\* that the table passed is the one the previous trim_strings returned
NoCall ==
    [op |-> "none", df |-> <<>>, arr |-> <<>>, cols |-> <<>>,
     factor |-> R(0), window |-> 0, again |-> FALSE]

NoOutcome == [exc |-> "none", msg |-> "", names |-> <<>>, ret |-> <<>>]

Outcome(r) == [exc |-> r.exc, msg |-> r.msg, names |-> r.names, ret |-> r.ret]

----------------------------------------------------------------------------
(* The calls on a DataCleaner *)

InitCleaner ==
    /\ df \in TextTables \cup NumTables
    /\ arr = EmptyArray
    /\ call = NoCall
    /\ out = NoOutcome

\* The methods keep no state (DataCleaner has no attributes), so a behaviour
\* is one call on the table drawn by Init; the only second call is the caller
\* passing the table trim_strings returned to trim_strings again.

DropInvalidRows ==
    /\ call.op = "none"
    /\ \E cols \in SeqsUpTo(ColumnNames, MaxCols) :
        LET r == drop_invalid_rows(df, cols)
        IN  /\ call' = [NoCall EXCEPT !.op = "drop_invalid_rows",
                                      !.df = <<df>>, !.cols = cols]
            /\ out' = Outcome(r)
            /\ df' = r.input
            /\ UNCHANGED arr

TrimStrings ==
    /\ call.op = "none"
    /\ \E cols \in SeqsUpTo(ColumnNames, MaxCols) :
        LET r == trim_strings(df, cols)
        IN  /\ call' = [NoCall EXCEPT !.op = "trim_strings",
                                      !.df = <<df>>, !.cols = cols]
            /\ out' = Outcome(r)
            /\ df' = r.input
            /\ UNCHANGED arr

\* trim_strings(trim_strings(df, cols), cols): the second application
TrimStringsAgain ==
    /\ call.op = "trim_strings" /\ ~call.again
    /\ out.exc = "none"
    /\ LET r == trim_strings(out.ret[1], call.cols)
       IN  /\ call' = [call EXCEPT !.df = <<out.ret[1]>>, !.again = TRUE]
           /\ out' = Outcome(r)
           /\ df' = r.input
           /\ UNCHANGED arr

RemoveOutliersIqr ==
    /\ call.op = "none"
    /\ \E col \in ColumnNames, factor \in Factors :
        LET r == remove_outliers_iqr(df, col, factor)
        IN  /\ call' = [NoCall EXCEPT !.op = "remove_outliers_iqr",
                                      !.df = <<df>>, !.cols = <<col>>,
                                      !.factor = factor]
            /\ out' = Outcome(r)
            /\ df' = r.input
            /\ UNCHANGED arr

NextCleaner ==
    DropInvalidRows \/ TrimStrings \/ TrimStringsAgain \/ RemoveOutliersIqr

SpecCleaner == InitCleaner /\ [][NextCleaner]_vars

----------------------------------------------------------------------------
(* The calls on a StatisticsUtils *)

\* every value is a float with a significand of at most three bits; 7/4
\* (1.11 in binary) has the longest one
ArrayValues == {R(-1), R(1), R(2), R(3), R(4), R(6), Frac(7, 4)}

\* one-dimensional sequences, the nested 2 x 2 lists over {1, 2}, and scalars
Arrays ==
    {[shape |-> <<Len(s)>>, data |-> s] : s \in SeqsUpTo(ArrayValues, MaxLen)}
    \cup {[shape |-> <<2, 2>>, data |-> s] : s \in [1..4 -> {R(1), R(2)}]}
    \cup {[shape |-> <<>>, data |-> <<x>>] : x \in ArrayValues}

Windows == (-1)..(MaxLen + 1)

EmptyTable == [columns |-> <<>>, kind |-> <<>>, rows |-> <<>>]

InitStats ==
    /\ df = EmptyTable
    /\ arr \in Arrays
    /\ call = NoCall
    /\ out = NoOutcome

MovingAverage ==
    /\ call.op = "none"
    /\ \E window \in Windows :
        LET r == moving_average(arr, window)
        IN  /\ call' = [NoCall EXCEPT !.op = "moving_average",
                                      !.arr = <<arr>>, !.window = window]
            /\ out' = Outcome(r)
            /\ arr' = r.input
            /\ UNCHANGED df

Zscore ==
    /\ call.op = "none"
    /\ LET r == zscore(arr)
       IN  /\ call' = [NoCall EXCEPT !.op = "zscore", !.arr = <<arr>>]
           /\ out' = Outcome(r)
           /\ arr' = r.input
           /\ UNCHANGED df

MinMaxScale ==
    /\ call.op = "none"
    /\ LET r == min_max_scale(arr)
       IN  /\ call' = [NoCall EXCEPT !.op = "min_max_scale", !.arr = <<arr>>]
           /\ out' = Outcome(r)
           /\ arr' = r.input
           /\ UNCHANGED df

NextStats == MovingAverage \/ Zscore \/ MinMaxScale

SpecStats == InitStats /\ [][NextStats]_vars

----------------------------------------------------------------------------
(* Vocabulary of the properties *)

\* the table that was passed to the last call, and the table it returned
Passed == call.df[1]
Returned == out.ret[1]

\* the rows of `rows` that satisfy Good, in their original order: the k-th
\* row of the result is the row at the k-th smallest index that satisfies Good
RowsWhere(rows, Good(_)) ==
    LET G == {i \in 1..Len(rows) : Good(rows[i])}
    IN  [k \in 1..Cardinality(G) |->
            rows[CHOOSE i \in G : Cardinality({j \in G : j <= i}) = k]]

AllExist(t, cols) == \A i \in 1..Len(cols) : cols[i] \in Range(t.columns)
AbsentNames(t, cols) == {c \in Range(cols) : c \notin Range(t.columns)}

SameShape(t, u) == t.columns = u.columns /\ t.kind = u.kind

----------------------------------------------------------------------------
(* C1: for column names that all exist, drop_invalid_rows returns exactly the
   rows with no missing value in any named column: none of the returned rows
   has one, every row without one is returned unchanged, in the original
   relative order, and no row is added. *)

Complete(row, cols) == \A c \in Range(cols) : ~row[c].na

C1_DropReturnsCompleteRows ==
    (call.op = "drop_invalid_rows" /\ AllExist(Passed, call.cols)) =>
        /\ out.exc = "none" /\ Len(out.ret) = 1
        /\ SameShape(Returned, Passed)
        /\ \A k \in 1..Len(Returned.rows) : Complete(Returned.rows[k], call.cols)
        /\ Returned.rows = RowsWhere(Passed.rows, LAMBDA r : Complete(r, call.cols))

\* two columns named, a row missing in only one of them dropped, the row
\* after it kept
C1_Witness ==
    /\ call.op = "drop_invalid_rows" /\ out.exc = "none"
    /\ Cardinality(Range(call.cols)) = 2
    /\ Len(Passed.rows) = 2 /\ Len(Returned.rows) = 1
    /\ \E c \in Range(call.cols) : ~Passed.rows[1][c].na
    /\ Returned.rows[1] = Passed.rows[2]

----------------------------------------------------------------------------
(* C2: when column_names has a name that is not a column, drop_invalid_rows
   and trim_strings raise KeyError, the error carries every absent name,
   nothing is returned and the table passed is unchanged. *)

C2_MissingColumnRaisesKeyError ==
    (/\ call.op \in {"drop_invalid_rows", "trim_strings"}
     /\ AbsentNames(Passed, call.cols) # {}) =>
        /\ out.exc = "KeyError"
        /\ Range(out.names) = AbsentNames(Passed, call.cols)
        /\ out.ret = <<>>
        /\ df = Passed

\* trim_strings on a table with rows, two different absent names
C2_Witness ==
    /\ call.op = "trim_strings" /\ out.exc = "KeyError"
    /\ Len(out.names) = 2 /\ out.names[1] # out.names[2]
    /\ Len(Passed.rows) > 0

----------------------------------------------------------------------------
(* C3: for existing text columns, trim_strings returns a new table with the
   same rows and columns in which every value of a named column has lost its
   leading and trailing whitespace and kept the rest, every other column is
   equal cell for cell, and the table passed is unchanged. *)

AllText(t, cols) == \A c \in Range(cols) : t.kind[c] = "text"

AllSpace(s) == \A i \in 1..Len(s) : s[i] \in Whitespace

\* r is s without its leading and trailing whitespace
IsStripped(r, s) ==
    /\ r = <<>> \/ (r[1] \notin Whitespace /\ r[Len(r)] \notin Whitespace)
    /\ \E i \in 1..Len(s) + 1 :
          /\ i + Len(r) - 1 <= Len(s)
          /\ r = SubSeq(s, i, i + Len(r) - 1)
          /\ AllSpace(SubSeq(s, 1, i - 1))
          /\ AllSpace(SubSeq(s, i + Len(r), Len(s)))

C3_TrimStripsNamedColumnsOnly ==
    (/\ call.op = "trim_strings" /\ ~call.again
     /\ AllExist(Passed, call.cols) /\ AllText(Passed, call.cols)) =>
        /\ out.exc = "none" /\ Len(out.ret) = 1
        /\ SameShape(Returned, Passed)
        /\ Len(Returned.rows) = Len(Passed.rows)
        /\ \A i \in 1..Len(Passed.rows) : \A c \in Range(Passed.columns) :
              IF c \in Range(call.cols) /\ ~Passed.rows[i][c].na
              THEN /\ ~Returned.rows[i][c].na
                   /\ IsStripped(Returned.rows[i][c].s, Passed.rows[i][c].s)
              ELSE Returned.rows[i][c] = Passed.rows[i][c]
        /\ df = Passed

\* name trimmed on both sides with its inner whitespace kept, city not named
\* and still carrying its trailing blank
C3_Witness ==
    /\ call.op = "trim_strings" /\ ~call.again /\ out.exc = "none"
    /\ call.cols = <<"name">>
    /\ \E i \in 1..Len(Passed.rows) :
          /\ Passed.rows[i]["name"] = Txt(<<" ", "a", " ", "b", "\t">>)
          /\ Returned.rows[i]["name"] = Txt(<<"a", " ", "b">>)
          /\ Returned.rows[i]["city"] = Txt(<<"x", " ">>)
          /\ df.rows[i]["name"] = Txt(<<" ", "a", " ", "b", "\t">>)

----------------------------------------------------------------------------
(* C4: trim_strings is idempotent: applied to the table it returned, with
   the same column names, it succeeds and returns an equal table. *)

C4_TrimIdempotent ==
    (call.op = "trim_strings" /\ call.again) =>
        /\ out.exc = "none"
        /\ out.ret = <<Passed>>

\* the second application, on a table whose named column holds text
C4_Witness ==
    /\ call.op = "trim_strings" /\ call.again /\ out.exc = "none"
    /\ \E i \in 1..Len(Passed.rows) : \E c \in Range(call.cols) :
          Passed.rows[i][c] = Txt(<<"a", " ", "b">>)
    /\ \E i \in 1..Len(Passed.rows) : \E c \in Range(call.cols) :
          Passed.rows[i][c] = Txt(<<>>)

----------------------------------------------------------------------------
(* Order statistics of the column the last remove_outliers_iqr call named *)

IqrCol == call.cols[1]

\* the numbers in the column, in row order, and in ascending order
ColValues ==
    LET present == RowsWhere(Passed.rows, LAMBDA r : ~r[IqrCol].na)
    IN  [i \in 1..Len(present) |-> present[i][IqrCol].n]
Ascending == SortSeq(ColValues, LAMBDA x, y : x < y)

\* twice the median: the middle value, or the mean of the two middle values
Median2 ==
    LET n == Len(Ascending)
    IN  IF n % 2 = 1 THEN 2 * Ascending[(n + 1) \div 2]
        ELSE Ascending[n \div 2] + Ascending[n \div 2 + 1]

\* four times the k-th quartile (k = 1, 3) by linear interpolation: the point
\* k/4 of the way along the n - 1 gaps between the n ascending values
Quartile4(k) ==
    LET n == Len(Ascending)
        i == (k * (n - 1)) \div 4
        r == (k * (n - 1)) % 4
    IN  IF r = 0 THEN 4 * Ascending[i + 1]
        ELSE (4 - r) * Ascending[i + 1] + r * Ascending[i + 2]

IqrApplies ==
    /\ call.op = "remove_outliers_iqr"
    /\ IqrCol \in Range(Passed.columns)
    /\ Passed.kind[IqrCol] = "numeric"

----------------------------------------------------------------------------
(* C5: with factor 1.5, on a numeric column with at least one value,
   remove_outliers_iqr never removes a row whose value equals the median of
   the column. *)

AtMedian(row) == ~row[IqrCol].na /\ 2 * row[IqrCol].n = Median2

C5_MedianRowsKept ==
    (IqrApplies /\ call.factor = Frac(3, 2) /\ Len(ColValues) >= 1) =>
        /\ out.exc = "none" /\ Len(out.ret) = 1
        /\ RowsWhere(Returned.rows, AtMedian) = RowsWhere(Passed.rows, AtMedian)

\* rows at the median are kept while an outlier is removed
C5_Witness ==
    /\ IqrApplies /\ call.factor = Frac(3, 2) /\ out.exc = "none"
    /\ \E i \in 1..Len(Returned.rows) : AtMedian(Returned.rows[i])
    /\ Len(Returned.rows) < Len(ColValues)

----------------------------------------------------------------------------
(* C6: remove_outliers_iqr(T, col, f) returns exactly the rows whose value v
   satisfies Q1 - f*(Q3-Q1) <= v <= Q3 + f*(Q3-Q1), both bounds inclusive, in
   the original order; a row at a bound is kept, and when Q3 = Q1 exactly the
   rows equal to that quantile are kept. *)

\* with f = fn/fd and the quartiles in fourths, the two inequalities times 4*fd
AboveLower(v) ==
    4 * call.factor.d * v >=
        call.factor.d * Quartile4(1) - call.factor.n * (Quartile4(3) - Quartile4(1))
BelowUpper(v) ==
    4 * call.factor.d * v <=
        call.factor.d * Quartile4(3) + call.factor.n * (Quartile4(3) - Quartile4(1))

Inlier(row) ==
    /\ ~row[IqrCol].na
    /\ AboveLower(row[IqrCol].n) /\ BelowUpper(row[IqrCol].n)

----------------------------------------------------------------------------
(* Vocabulary of the properties of StatisticsUtils *)

\* the array that was passed to the last call, and the array it returned
PassedArr == call.arr[1]
ReturnedArr == out.ret[1]

IsSequence(a) == Len(a.shape) = 1 /\ a.shape[1] = Len(a.data)

Least(s) == CHOOSE x \in Range(s) : \A y \in Range(s) : RLe(x, y)
Greatest(s) == CHOOSE x \in Range(s) : \A y \in Range(s) : RLe(y, x)

InvalidArgument ==
    {"window must be a positive integer",
     "moving_average only supports 1D sequences",
     "window must not be larger than the array size"}

SameNumbers(s, t) ==
    Len(s) = Len(t) /\ \A i \in 1..Len(s) : REq(s[i], t[i])

----------------------------------------------------------------------------
(* C7: for a sequence s of length n and 1 <= w <= n, moving_average(s, w)
   returns n - w + 1 elements, the i-th the arithmetic mean of the w elements
   of s starting at the i-th; moving_average([1,2,3,4], 2) is
   [1.5, 2.5, 3.5]. *)

C7_MovingAverageIsWindowMeans ==
    (/\ call.op = "moving_average" /\ IsSequence(PassedArr)
     /\ 1 <= call.window /\ call.window <= Len(PassedArr.data)) =>
        LET s == PassedArr.data
            w == call.window
        IN  /\ out.exc = "none" /\ Len(out.ret) = 1
            /\ ReturnedArr.shape = <<Len(s) - w + 1>>
            /\ Len(ReturnedArr.data) = Len(s) - w + 1
            /\ \A i \in 1..(Len(s) - w + 1) :
                  REq(RMul(ReturnedArr.data[i], R(w)), RSum(SubSeq(s, i, i + w - 1)))
            /\ (s = <<R(1), R(2), R(3), R(4)>> /\ w = 2) =>
                  SameNumbers(ReturnedArr.data, <<Frac(3, 2), Frac(5, 2), Frac(7, 2)>>)

\* a window that is neither the whole sequence nor one element, over unequal
\* values
C7_Witness ==
    /\ call.op = "moving_average" /\ out.exc = "none"
    /\ PassedArr.data = <<R(1), R(2), R(3), R(4)>> /\ call.window = 2
    /\ Len(ReturnedArr.data) = 3
    /\ REq(ReturnedArr.data[3], Frac(7, 2))

----------------------------------------------------------------------------
(* C8: moving_average raises ValueError for an invalid argument, and returns
   nothing, when window is zero or negative, when window exceeds the length
   of the sequence (every positive window on an empty sequence), and when
   the input is not one-dimensional. *)

C8_MovingAverageRejects ==
    (/\ call.op = "moving_average"
     /\ \/ call.window <= 0
        \/ Len(PassedArr.shape) # 1
        \/ call.window > PassedArr.shape[1]) =>
        /\ out.exc = "ValueError"
        /\ out.msg \in InvalidArgument
        /\ out.ret = <<>>
        /\ arr = PassedArr

\* a window larger than a sequence that is not empty
C8_Witness ==
    /\ call.op = "moving_average" /\ out.exc = "ValueError"
    /\ IsSequence(PassedArr) /\ Len(PassedArr.data) >= 2
    /\ call.window = Len(PassedArr.data) + 1

----------------------------------------------------------------------------
(* C9: for a sequence whose minimum differs from its maximum, min_max_scale
   returns a sequence of the same length and order with every value in
   [0, 1], the minimum mapped to 0, the maximum to 1 and each x to
   (x - min) / (max - min); min_max_scale([2,4,6]) is [0.0, 0.5, 1.0]. *)

C9_MinMaxScaleRange ==
    (/\ call.op = "min_max_scale" /\ IsSequence(PassedArr)
     /\ PassedArr.data # <<>>
     /\ ~REq(Least(PassedArr.data), Greatest(PassedArr.data))) =>
        LET s == PassedArr.data
            lo == Least(s)
            hi == Greatest(s)
        IN  /\ out.exc = "none" /\ Len(out.ret) = 1
            /\ ReturnedArr.shape = PassedArr.shape
            /\ Len(ReturnedArr.data) = Len(s)
            /\ \A i \in 1..Len(s) :
                  LET y == ReturnedArr.data[i]
                  IN  /\ RLe(R(0), y) /\ RLe(y, R(1))
                      /\ REq(s[i], lo) => REq(y, R(0))
                      /\ REq(s[i], hi) => REq(y, R(1))
                      /\ REq(RMul(y, RSub(hi, lo)), RSub(s[i], lo))
            /\ s = <<R(2), R(4), R(6)>> =>
                  SameNumbers(ReturnedArr.data, <<R(0), Frac(1, 2), R(1)>>)

\* a negative minimum, the maximum first, a value strictly between
C9_Witness ==
    /\ call.op = "min_max_scale" /\ out.exc = "none"
    /\ PassedArr.data = <<R(3), R(-1), R(1)>>
    /\ SameNumbers(ReturnedArr.data, <<R(1), R(0), Frac(1, 2)>>)

----------------------------------------------------------------------------
(* C10: on a non-empty sequence whose elements are all equal, zscore raises
   ValueError (standard deviation is zero) and min_max_scale raises
   ValueError (all values are equal), neither returning a result; on a
   sequence that is not constant neither raises that error. *)

Constant(s) == \A i, j \in 1..Len(s) : REq(s[i], s[j])

Degenerate ==
    /\ out.exc = "ValueError"
    /\ out.msg = IF call.op = "zscore" THEN "Standard deviation is zero"
                 ELSE "All values are equal"
    /\ out.ret = <<>>

C10_ConstantIsDegenerate ==
    (/\ call.op \in {"zscore", "min_max_scale"}
     /\ IsSequence(PassedArr) /\ PassedArr.data # <<>>) =>
        (Degenerate <=> Constant(PassedArr.data))

----------------------------------------------------------------------------
(* C11: trim_strings checks its preconditions in a fixed order: an absent
   name raises KeyError even when other named columns are not text; only
   when every name exists and some named column is not text does it raise
   TypeError, and that error carries every named column that is not text;
   either way nothing is returned and the table passed is unchanged. *)

NonTextNames(t, cols) ==
    {c \in Range(cols) : c \in Range(t.columns) /\ t.kind[c] # "text"}

C11_TrimChecksNamesBeforeTypes ==
    call.op = "trim_strings" =>
        /\ AbsentNames(Passed, call.cols) # {} =>
              /\ out.exc = "KeyError"
              /\ Range(out.names) = AbsentNames(Passed, call.cols)
        /\ (AbsentNames(Passed, call.cols) = {}
             /\ NonTextNames(Passed, call.cols) # {}) =>
              /\ out.exc = "TypeError"
              /\ Range(out.names) = NonTextNames(Passed, call.cols)
        /\ out.exc = "TypeError" =>
              /\ AbsentNames(Passed, call.cols) = {}
              /\ NonTextNames(Passed, call.cols) # {}
        /\ out.exc \in {"KeyError", "TypeError"} =>
              out.ret = <<>> /\ df = Passed

\* an absent name after a numeric column: KeyError, not TypeError
C11_Witness ==
    /\ call.op = "trim_strings" /\ out.exc = "KeyError"
    /\ call.cols = <<"age", "salary">>
    /\ out.names = <<"salary">>
    /\ Len(Passed.rows) > 0

\* two named columns that are not text, both carried by the TypeError
C11_WitnessTypeError ==
    /\ call.op = "trim_strings" /\ out.exc = "TypeError"
    /\ Len(out.names) = 2 /\ out.names[1] # out.names[2]

====
